---------------------------- MODULE Spec2Model ----------------------------
(***************************************************************************)
(* A model of woz2dsk.py: the 4-and-4 and 6-and-2 field codecs, the        *)
(* address/data field reader Track.next_sector, the per-track scan         *)
(* Track.sectors and the image assembly loop of main.                      *)
(*                                                                         *)
(* A track is a looping sequence of disk nibbles read through a cursor     *)
(* (wozardry.Track): next(track.nibble()) yields the nibble under the      *)
(* cursor and advances it, wrapping at the end of the track.               *)
(***************************************************************************)
EXTENDS Integers, Sequences, FiniteSets, TLC

(***************************************************************************)
(* Python values                                                           *)
(***************************************************************************)
\* Optional[T]: None is the empty tuple, a value x is the tuple <<x>>.
None == << >>
Some(x) == << x >>

\* Python's ^ on non-negative integers, bit by bit.
RECURSIVE XorBits(_, _)
XorBits(a, b) ==
    IF a = 0 THEN b
    ELSE IF b = 0 THEN a
    ELSE (((a % 2) + (b % 2)) % 2) + 2 * XorBits(a \div 2, b \div 2)

\* The same on six-bit operands, tabulated once.
XorTable == [a \in 0..63 |-> [b \in 0..63 |-> XorBits(a, b)]]
Xor(a, b) == IF a < 64 /\ b < 64 THEN XorTable[a][b] ELSE XorBits(a, b)

\* Python's & on non-negative integers.
RECURSIVE And(_, _)
And(a, b) ==
    IF a = 0 \/ b = 0 THEN 0
    ELSE ((a % 2) * (b % 2)) + 2 * And(a \div 2, b \div 2)

\* bytearray(n): n zero bytes.
Zeros(n) == [i \in 1..n |-> 0]

(***************************************************************************)
(* Markers                                                                 *)
(***************************************************************************)
DEFAULT_ADDRESS_PROLOGUE == << 213, 170, 150 >>   \* d5 aa 96
DEFAULT_ADDRESS_EPILOGUE == << 222, 170, 235 >>   \* de aa eb
DEFAULT_DATA_PROLOGUE == << 213, 170, 173 >>      \* d5 aa ad
DEFAULT_DATA_EPILOGUE == << 222, 170, 235 >>      \* de aa eb
SYNC_BYTE == << 255 >>                            \* bytes([0xff])

\* The nibble counts given to find_within.
EpilogueWindow == 2
Tolerance == 20

\* The sizes of a data field and of a sector.
DataNibbles == 342
AuxNibbles == 86
SectorBytes == 256
NumTracks == 35
NumSectors == 16

(***************************************************************************)
(* FieldCodec                                                              *)
(***************************************************************************)
\* decode_44 without the shift of the first nibble.
decode_44_unshifted(xx, yy) == And(xx, 85) + And(yy, 85)

decode_44(xx, yy) == (And(xx, 85) * 2) + And(yy, 85)

\* Maps 6-bit data to 6,2-encoded nibble (1-based: ENCODE_62[v + 1]).
ENCODE_62 ==
    << 150, 151, 154, 155, 157, 158, 159, 166, 167,
       171, 172, 173, 174, 175, 178, 179, 180, 181, 182,
       183, 185, 186, 187, 188, 189, 190, 191, 203,
       205, 206, 207, 211, 214, 215, 217, 218, 219,
       220, 221, 222, 223, 229, 230, 231, 233, 234,
       235, 236, 237, 238, 239, 242, 243, 244, 245, 246,
       247, 249, 250, 251, 252, 253, 254, 255 >>

\* Maps 6,2-encoded nibble to 6-bit data; -1 stands for a missing key.
DECODE_62_MAP ==
    [n \in 0..255 |->
        IF \E k \in 1..Len(ENCODE_62) : ENCODE_62[k] = n
        THEN (CHOOSE k \in 1..Len(ENCODE_62) : ENCODE_62[k] = n) - 1
        ELSE -1]

\* swap_bits without the exchange.
swap_bits_unswapped(bits) == bits

swap_bits(bits) == Xor(And(bits, 1) * 2, And(bits, 2) \div 2)

\* decode_62_nibble with a default value instead of the KeyError.
decode_62_nibble_defaulting(nibble) ==
    [ok |-> TRUE,
     val |-> IF DECODE_62_MAP[nibble] >= 0 THEN DECODE_62_MAP[nibble] ELSE 0,
     nibble |-> nibble]

\* decode_62_nibble: [ok |-> TRUE, val] or the raised InvalidDataNibble.
decode_62_nibble(nibble) ==
    IF DECODE_62_MAP[nibble] >= 0
    THEN [ok |-> TRUE, val |-> DECODE_62_MAP[nibble], nibble |-> nibble]
    ELSE [ok |-> FALSE, val |-> 0, nibble |-> nibble]

MinOf(a, b) == IF a < b THEN a ELSE b

\* The least element of a non-empty set of integers.
Min(S) == CHOOSE m \in S : \A j \in S : m <= j

\* The XOR of the values of a short sequence, from left to right.
RECURSIVE XorAll(_)
XorAll(vals) == IF vals = << >> THEN 0 ELSE Xor(Head(vals), XorAll(Tail(vals)))

\* The running checksum after each nibble: running_checksum ^= value, in
\* stream order. RunFrom gives the checksums after nibbles k..hi when rc is
\* the checksum before nibble k; the 342 nibbles are run through in stretches
\* of RunLen, each starting from the last checksum of the one before.
RunLen == 19
RECURSIVE RunFrom(_, _, _, _)
RunOn(vals, k, hi, rc) == << rc >> \o RunFrom(vals, k + 1, hi, rc)
RunFrom(vals, k, hi, rc) ==
    IF k > hi THEN << >> ELSE RunOn(vals, k, hi, Xor(rc, vals[k]))
RECURSIVE RunStretches(_, _, _)
RunNext(vals, lo, run) ==
    run \o RunStretches(vals, lo + RunLen, run[Len(run)])
RunStretches(vals, lo, rc) ==
    IF lo > Len(vals) THEN << >>
    ELSE RunNext(vals, lo,
                 RunFrom(vals, lo, MinOf(lo + RunLen - 1, Len(vals)), rc))
RunningChecksums(vals) == RunStretches(vals, 1, 0)

\* FirstPassWrites without the test idx < 84.
FirstPassWrites_unguarded(idx, rc) ==
    << [at |-> idx, val |-> swap_bits(And(rc, 3))],
       [at |-> idx + AuxNibbles, val |-> swap_bits(And(rc \div 4, 3))],
       [at |-> idx + AuxNibbles * 2, val |-> swap_bits(And(rc \div 16, 3))] >>

\* The writes output[at] ^= val of one iteration of the first loop of
\* decode_62, at index idx, rc being the running checksum after its nibble.
FirstPassWrites(idx, rc) ==
    << [at |-> idx, val |-> swap_bits(And(rc, 3))],
       [at |-> idx + AuxNibbles, val |-> swap_bits(And(rc \div 4, 3))] >>
    \o (IF idx < 84
        THEN << [at |-> idx + AuxNibbles * 2,
                 val |-> swap_bits(And(rc \div 16, 3))] >>
        ELSE << >>)

\* SecondPassWrites without the shift of the running checksum.
SecondPassWrites_unshifted(idx, rc) == << [at |-> idx, val |-> rc] >>

\* The write of one iteration of the second loop of decode_62.
SecondPassWrites(idx, rc) == << [at |-> idx, val |-> rc * 4] >>

\* The iterations of the first loop that can write output[i]: the loop
\* writes at idx, idx + 86 and idx + 172 only.
FirstPassIndexes(i) ==
    SelectSeq(<< i, i - AuxNibbles, i - 2 * AuxNibbles >>,
              LAMBDA idx : idx >= 0 /\ idx < AuxNibbles)

\* All the writes of decode_62 to output[i], in the order they are made;
\* rcs[k] is the running checksum after nibble k (1-based).
RECURSIVE WritesOf(_, _)
WritesOf(idxs, rcs) ==
    IF idxs = << >> THEN << >>
    ELSE FirstPassWrites(Head(idxs), rcs[Head(idxs) + 1])
         \o WritesOf(Tail(idxs), rcs)
WritesAt(i, rcs) ==
    SelectSeq(WritesOf(FirstPassIndexes(i), rcs)
                  \o SecondPassWrites(i, rcs[AuxNibbles + i + 1]),
              LAMBDA w : w.at = i)

\* output = bytearray(256) after all the writes.
XorWrites(ws) == XorAll([k \in 1..Len(ws) |-> ws[k].val])
Decoded(rcs) == [i \in 1..SectorBytes |-> XorWrites(WritesAt(i - 1, rcs))]

\* The positions (1-based) of the nibbles of data that are no key of
\* DECODE_62_MAP, and the six-bit values of the nibbles.
BadNibbles(data) == {k \in 1..DataNibbles : ~decode_62_nibble(data[k]).ok}
NibbleValues(data) ==
    SubSeq([k \in 1..DataNibbles |-> decode_62_nibble(data[k]).val],
           1, DataNibbles)

\* What decode_62 returns, given the running checksums.
Decode62Return(rcs) ==
    [ok |-> TRUE, data |-> SubSeq(Decoded(rcs), 1, SectorBytes),
     checksum |-> rcs[DataNibbles], nibble |-> 0]

\* decode_62, given the positions of the bad nibbles.
Decode62From(data, bad) ==
    IF bad # {}
    THEN [ok |-> FALSE, data |-> << >>, checksum |-> 0,
          nibble |-> data[Min(bad)]]
    ELSE Decode62Return(RunningChecksums(NibbleValues(data)))

\* decode_62: [ok |-> TRUE, data, checksum], or ok = FALSE when
\* decode_62_nibble raises InvalidDataNibble(nibble) at the first nibble,
\* in stream order, that is no key of the map.
decode_62(data) == Decode62From(data, BadNibbles(data))

(***************************************************************************)
(* The nibble cursor (wozardry.Track, used through nibble() and find())    *)
(***************************************************************************)
\* The nibble under the cursor at position pos of the looping stream strm.
Nib(strm, pos) == strm[(pos % Len(strm)) + 1]

\* The cursor position after n calls of next(self.track.nibble()).
Advance(strm, pos, n) == (pos + n) % Len(strm)

\* The n nibbles read from pos on.
ReadNibbles(strm, pos, n) == [i \in 1..n |-> Nib(strm, pos + i - 1)]

\* The window `seen` after the nibble at pos has been shifted in, when cnt
\* nibbles had been read before it: [0] * len(sequence), shifted cnt + 1 times.
Seen(strm, pos, cnt, n) ==
    [j \in 1..n |->
        IF cnt + 1 - (n - j) >= 1 THEN Nib(strm, pos - (n - j)) ELSE 0]

\* The search loop shared by find and find_within: at most limit nibbles are
\* read from start on; the result is [found, pos] with pos the cursor after
\* the last nibble read. cnt nibbles have been read without a match; the
\* next ones are looked at a block at a time.
SearchBlock == 64
SearchHits(strm, start, sequence, lo, hi) ==
    {k \in lo..hi :
        /\ Nib(strm, start + k - 1) = sequence[Len(sequence)]
        /\ Seen(strm, start + k - 1, k - 1, Len(sequence)) = sequence}
RECURSIVE SearchLoop(_, _, _, _, _)
SearchFrom(strm, start, sequence, hi, limit, hits) ==
    IF hits # {}
    THEN [found |-> TRUE, pos |-> Advance(strm, start, Min(hits))]
    ELSE SearchLoop(strm, start, sequence, hi, limit)
SearchLoop(strm, start, sequence, cnt, limit) ==
    IF cnt >= limit
    THEN [found |-> FALSE, pos |-> Advance(strm, start, limit)]
    ELSE SearchFrom(strm, start, sequence,
                    MinOf(cnt + SearchBlock, limit), limit,
                    SearchHits(strm, start, sequence, cnt + 1,
                               MinOf(cnt + SearchBlock, limit)))

\* wozardry.Track.find(sequence): reads nibbles until the sequence has been
\* seen or the track has passed its end twice, and reports whether it was
\* found; a search that fails leaves the cursor at the start of the track.
find(strm, pos, sequence) ==
    SearchLoop(strm, pos, sequence, 0, 2 * Len(strm) - (pos % Len(strm)))

\* Track.find_within(sequence, num_nibbles).
\* find_within with one nibble more than asked for.
find_within_inclusive(strm, pos, sequence, num_nibbles) ==
    SearchLoop(strm, pos, sequence, 0, num_nibbles + 1)

find_within(strm, pos, sequence, num_nibbles) ==
    SearchLoop(strm, pos, sequence, 0, num_nibbles)

(***************************************************************************)
(* Sector and the outcomes of Track.next_sector                            *)
(***************************************************************************)
\* Sector.__init__: no data (None or empty) becomes bytearray(256).
Sector(volume_num, track_num, sector_num, data) ==
    [volume_num |-> volume_num, track_num |-> track_num,
     sector_num |-> sector_num,
     data |-> IF data = None THEN Zeros(SectorBytes) ELSE data]

\* The sectors in ascending order.
DOS_33_ORDER_ascending ==
    << 0, 1, 2, 3, 4, 5, 6, 7, 8, 9, 10, 11, 12, 13, 14, 15 >>

DOS_33_ORDER == << 0, 13, 11, 9, 7, 5, 3, 1, 14, 12, 10, 8, 6, 4, 2, 15 >>

\* The subclasses of SectorException; InvalidDataNibble is a DiskException
\* that is not one of them.
SectorExceptions ==
    { "TrackMismatch", "AddressChecksumMismatch", "AddressEpilogueNotFound",
      "DataChecksumMismatch", "DataSyncBytesNotFound", "DataPrologueNotFound",
      "DataEpilogueNotFound", "BadData" }

\* An exception raised by next_sector at cursor position pos; printed holds
\* what next_sector itself printed before raising.
Raise(kind, track, track_found, sector_num, pos, printed, srch) ==
    [kind |-> kind, track |-> track, track_found |-> track_found,
     sector_num |-> sector_num, sector |-> None, pos |-> pos,
     printed |-> printed, found |-> srch.found, addr |-> srch.pos]

\* The normal return of next_sector.
Return(sector, pos, srch) ==
    [kind |-> "Sector", track |-> sector.track_num,
     track_found |-> sector.track_num, sector_num |-> sector.sector_num,
     sector |-> Some(sector), pos |-> pos, printed |-> << >>,
     found |-> srch.found, addr |-> srch.pos]

\* ReadDataEpilogue comparing the third nibble with the marker's third byte.
ReadDataEpilogue_strict(strm, tn, volume, sector_num, srch, data, epi) ==
    IF ~epi.found \/ Nib(strm, epi.pos) # DEFAULT_DATA_EPILOGUE[3]
    THEN Raise("DataEpilogueNotFound", tn, tn, sector_num, epi.pos, << >>,
               srch)
    ELSE Return(Sector(volume, tn, sector_num, data),
                Advance(strm, epi.pos, 1), srch)

\* next_sector, lines 226-231: epi is the outcome of the search for the data
\* epilogue.
ReadDataEpilogue(strm, tn, volume, sector_num, srch, data, epi) ==
    IF ~epi.found
    THEN Raise("DataEpilogueNotFound", tn, tn, sector_num, epi.pos, << >>,
               srch)
    ELSE Return(Sector(volume, tn, sector_num, data),
                Advance(strm, epi.pos, 1), srch)

\* CheckData without the comparison of the data checksum.
CheckData_unchecked(strm, p, tn, volume, sector_num, srch, dec, expected_checksum) ==
    IF ~dec.ok
    THEN Raise("BadData", tn, tn, sector_num, p,
               << [kind |-> "InvalidDataNibble", nibble |-> dec.nibble] >>,
               srch)
    ELSE IF ~expected_checksum.ok
    THEN Raise("InvalidDataNibble", tn, tn, sector_num, Advance(strm, p, 1),
               << >>, srch)
    ELSE ReadDataEpilogue(strm, tn, volume, sector_num, srch, dec.data,
             find_within(strm, Advance(strm, p, 1),
                         SubSeq(DEFAULT_DATA_EPILOGUE, 1, 2), EpilogueWindow))

\* next_sector, lines 216-224: dec is the outcome of decode_62 on the 342
\* nibbles read, p the cursor after them.
CheckData(strm, p, tn, volume, sector_num, srch, dec, expected_checksum) ==
    IF ~dec.ok
    THEN Raise("BadData", tn, tn, sector_num, p,
               << [kind |-> "InvalidDataNibble", nibble |-> dec.nibble] >>,
               srch)
    ELSE IF ~expected_checksum.ok
    THEN Raise("InvalidDataNibble", tn, tn, sector_num, Advance(strm, p, 1),
               << >>, srch)
    ELSE IF dec.checksum # expected_checksum.val
    THEN Raise("DataChecksumMismatch", tn, tn, sector_num,
               Advance(strm, p, 1), << >>, srch)
    ELSE ReadDataEpilogue(strm, tn, volume, sector_num, srch, dec.data,
             find_within(strm, Advance(strm, p, 1),
                         SubSeq(DEFAULT_DATA_EPILOGUE, 1, 2), EpilogueWindow))

\* next_sector, lines 210-215: pro is the outcome of the search for the data
\* prologue.
ReadDataField(strm, tn, volume, sector_num, srch, pro) ==
    IF ~pro.found
    THEN Raise("DataPrologueNotFound", tn, tn, sector_num, pro.pos, << >>,
               srch)
    ELSE CheckData(strm, Advance(strm, pro.pos, DataNibbles), tn, volume,
                   sector_num, srch,
                   decode_62(ReadNibbles(strm, pro.pos, DataNibbles)),
                   decode_62_nibble(Nib(strm, pro.pos + DataNibbles)))

\* next_sector, lines 207-208: sync is the outcome of the search for ff.
ReadSync(strm, tn, volume, sector_num, srch, sync) ==
    IF ~sync.found
    THEN Raise("DataSyncBytesNotFound", tn, tn, sector_num, sync.pos, << >>,
               srch)
    ELSE ReadDataField(strm, tn, volume, sector_num, srch,
             find_within(strm, sync.pos, DEFAULT_DATA_PROLOGUE, Tolerance))

\* next_sector, lines 196-199: epi is the outcome of the search for the
\* address epilogue; one more nibble is skipped after it.
ReadAddressEpilogue(strm, tn, volume, sector_num, srch, epi) ==
    IF ~epi.found
    THEN Raise("AddressEpilogueNotFound", tn, tn, sector_num, epi.pos, << >>,
               srch)
    ELSE ReadSync(strm, tn, volume, sector_num, srch,
             find_within(strm, Advance(strm, epi.pos, 1), SYNC_BYTE,
                         Tolerance))

\* CheckAddress with the checksum verified before the track number.
CheckAddress_checksum_first(strm, p, tn, volume, track_num, sector_num, srch) ==
    IF decode_44(Nib(strm, p), Nib(strm, p + 1))
            # Xor(Xor(volume, track_num), sector_num)
    THEN Raise("AddressChecksumMismatch", tn, tn, sector_num,
               Advance(strm, p, 2), << >>, srch)
    ELSE IF tn # track_num
    THEN Raise("TrackMismatch", tn, track_num, sector_num,
               Advance(strm, p, 2), << >>, srch)
    ELSE ReadAddressEpilogue(strm, tn, volume, sector_num, srch,
             find_within(strm, Advance(strm, p, 2),
                         SubSeq(DEFAULT_ADDRESS_EPILOGUE, 1, 2),
                         EpilogueWindow))

\* CheckAddress with the track number left out of the expected checksum.
CheckAddress_no_track(strm, p, tn, volume, track_num, sector_num, srch) ==
    IF tn # track_num
    THEN Raise("TrackMismatch", tn, track_num, sector_num, p, << >>, srch)
    ELSE IF decode_44(Nib(strm, p), Nib(strm, p + 1))
                # Xor(volume, sector_num)
    THEN Raise("AddressChecksumMismatch", tn, tn, sector_num,
               Advance(strm, p, 2), << >>, srch)
    ELSE ReadAddressEpilogue(strm, tn, volume, sector_num, srch,
             find_within(strm, Advance(strm, p, 2),
                         SubSeq(DEFAULT_ADDRESS_EPILOGUE, 1, 2),
                         EpilogueWindow))

\* next_sector, lines 187-194: p is the cursor after the sector number.
CheckAddress(strm, p, tn, volume, track_num, sector_num, srch) ==
    IF tn # track_num
    THEN Raise("TrackMismatch", tn, track_num, sector_num, p, << >>, srch)
    ELSE IF decode_44(Nib(strm, p), Nib(strm, p + 1))
                # Xor(Xor(volume, tn), sector_num)
    THEN Raise("AddressChecksumMismatch", tn, tn, sector_num,
               Advance(strm, p, 2), << >>, srch)
    ELSE ReadAddressEpilogue(strm, tn, volume, sector_num, srch,
             find_within(strm, Advance(strm, p, 2),
                         SubSeq(DEFAULT_ADDRESS_EPILOGUE, 1, 2),
                         EpilogueWindow))

\* next_sector, lines 181-186: srch is the outcome of self.track.find, which
\* is not looked at: the six nibbles after the cursor it leaves are decoded
\* in either case.
ReadAddress(strm, tn, srch) ==
    CheckAddress(strm, Advance(strm, srch.pos, 6), tn,
                 decode_44(Nib(strm, srch.pos), Nib(strm, srch.pos + 1)),
                 decode_44(Nib(strm, srch.pos + 2), Nib(strm, srch.pos + 3)),
                 decode_44(Nib(strm, srch.pos + 4), Nib(strm, srch.pos + 5)),
                 srch)

\* Track.next_sector on the track numbered tn, with the cursor at pos.
next_sector(strm, pos, tn) ==
    ReadAddress(strm, tn, find(strm, pos, DEFAULT_ADDRESS_PROLOGUE))

(***************************************************************************)
(* Disk images given to the program: the matching encoders and the tracks  *)
(* they write                                                              *)
(***************************************************************************)
\* Python's | on non-negative integers.
Or(a, b) == a + b - And(a, b)

\* The 4-and-4 encoding of a byte: odd bits, then even bits, padded with aa.
encode_44(x) == << Or(x \div 2, 170), Or(x, 170) >>

\* The encoder's exchange of the two low bits of a byte.
Swapped == << 0, 2, 1, 3 >>

\* The 342 six-bit values of a 256-byte payload: 86 values holding the low
\* two bits of three bytes each (bit-swapped), then the high six bits.
SixBitValues(payload) ==
  SubSeq(
    [i \in 1..DataNibbles |->
        IF i <= AuxNibbles
        THEN Swapped[(payload[i] % 4) + 1]
             + 4 * Swapped[(payload[i + AuxNibbles] % 4) + 1]
             + (IF i + 2 * AuxNibbles <= SectorBytes
                THEN 16 * Swapped[(payload[i + 2 * AuxNibbles] % 4) + 1]
                ELSE 0)
        ELSE payload[i - AuxNibbles] \div 4],
    1, DataNibbles)

\* The 6-and-2 encoding of a payload: each value XORed with the one before
\* it, then the checksum nibble (the last value).
Encode62Values(w) ==
    SubSeq([i \in 1..(DataNibbles + 1) |->
               IF i = 1 THEN ENCODE_62[w[1] + 1]
               ELSE IF i <= DataNibbles
               THEN ENCODE_62[Xor(w[i], w[i - 1]) + 1]
               ELSE ENCODE_62[w[DataNibbles] + 1]],
           1, DataNibbles + 1)
encode_62(payload) == Encode62Values(SixBitValues(payload))

\* The payload written in sector s of track t; track 0 sector 0 holds the
\* bytes 0, 1, ..., 255.
Payload(t, s) ==
    [i \in 1..SectorBytes |-> ((i - 1) * (2 * s + 1) + 16 * t + s) % 256]

DefaultVolume == 254
\* The number of sync nibbles (ff) written before each prologue.
GapLen == 5

Repeat(x, n) == [i \in 1..n |-> x]

\* The fields of one sector as written on the track: sync gap, address field
\* (prologue, volume, track, sector, checksum, epilogue), sync gap, data field
\* (prologue, 342 nibbles, checksum nibble, epilogue).
FieldOf(t, s, encoded) ==
    [vol |-> DefaultVolume, trk |-> t, sec |-> s,
     ck |-> XorBits(XorBits(DefaultVolume, t), s),
     lead |-> Repeat(255, GapLen),
     apro |-> DEFAULT_ADDRESS_PROLOGUE,
     aepi |-> DEFAULT_ADDRESS_EPILOGUE,
     gap |-> Repeat(255, GapLen),
     dpro |-> DEFAULT_DATA_PROLOGUE,
     data |-> SubSeq(encoded, 1, DataNibbles),
     dck |-> encoded[DataNibbles + 1],
     depi |-> DEFAULT_DATA_EPILOGUE,
     defect |-> "none"]
GoodField(t, s) == FieldOf(t, s, encode_62(Payload(t, s)))

\* The ways a written field can be damaged.
Defects ==
    << "none", "TrackMismatch", "AddressChecksum", "AddressEpilogue",
       "none", "NoSync", "NoDataPrologue", "BadNibble", "none",
       "DataChecksum", "DataEpilogue", "TrackMismatchBadChecksum",
       "ThirdEpilogueByte", "ForeignSector", "BadNibbleLast", "LateMarkers" >>

\* A nibble of the alphabet other than n.
OtherNibble(n) == IF n = 150 THEN 151 ELSE 150

DamagedAs(f, g, defect) ==
        CASE defect = "TrackMismatch" ->
                [g EXCEPT !.trk = f.trk + 1,
                          !.ck = XorBits(XorBits(f.vol, f.trk + 1), f.sec)]
          [] defect = "TrackMismatchBadChecksum" ->
                [g EXCEPT !.trk = f.trk + 2, !.ck = XorBits(f.ck, 255)]
          [] defect = "ForeignSector" ->
                [g EXCEPT !.trk = f.trk + 1, !.sec = f.sec + 200,
                          !.ck = 0]
          [] defect = "AddressChecksum" -> [g EXCEPT !.ck = XorBits(f.ck, 1)]
          [] defect = "AddressEpilogue" -> [g EXCEPT !.aepi = << 222, 171, 235 >>]
          [] defect = "NoSync" -> [g EXCEPT !.gap = Repeat(254, Tolerance + 1)]
          [] defect = "NoDataPrologue" -> [g EXCEPT !.dpro = << 213, 170, 172 >>]
          [] defect = "BadNibble" -> [g EXCEPT !.data[100] = 170]
          [] defect = "BadNibbleLast" -> [g EXCEPT !.data[DataNibbles] = 213]
          [] defect = "DataChecksum" -> [g EXCEPT !.dck = OtherNibble(f.dck)]
          [] defect = "BadChecksumNibble" -> [g EXCEPT !.dck = 170]
          [] defect = "DataEpilogue" -> [g EXCEPT !.depi = << 222, 171, 235 >>]
          [] defect = "ThirdEpilogueByte" ->
                [g EXCEPT !.aepi = << 222, 170, 255 >>,
                          !.depi = << 222, 170, 254 >>]
          [] defect = "LateMarkers" ->
                [g EXCEPT !.gap = Repeat(254, 3) \o Repeat(255, Tolerance - 4)]
          [] defect = "LateAddressEpilogue" ->
                [g EXCEPT !.aepi = << 255 >> \o f.aepi]
          [] defect = "LateDataEpilogue" ->
                [g EXCEPT !.depi = << 255 >> \o f.depi]
          [] defect = "SyncAtWindowEnd" ->
                [g EXCEPT !.gap = Repeat(254, Tolerance - 1) \o << 255 >>]
          [] defect = "PrologueAtWindowEnd" ->
                [g EXCEPT !.gap = Repeat(255, Tolerance - 2)]
          [] defect = "PrologueLate" ->
                [g EXCEPT !.gap = Repeat(255, Tolerance - 1)]
          [] OTHER -> g
Damaged(f, defect) == DamagedAs(f, [f EXCEPT !.defect = defect], defect)

\* The length of a well-written field.
GoodFieldLen == 2 * GapLen + 3 + 8 + 3 + 3 + DataNibbles + 1 + 3

FieldNibbles(f) ==
    f.lead \o f.apro \o encode_44(f.vol) \o encode_44(f.trk)
        \o encode_44(f.sec) \o encode_44(f.ck) \o f.aepi \o f.gap \o f.dpro
        \o f.data \o << f.dck >> \o f.depi

RECURSIVE Concat(_)
Concat(seqs) ==
    IF seqs = << >> THEN << >> ELSE Head(seqs) \o Concat(Tail(seqs))

\* A track as written: its fields in rotational order, with the offset of
\* each field in the stream, and where the cursor starts.
RECURSIVE OffsetOf(_, _)
OffsetOf(nibs, j) ==
    IF j = 1 THEN 0 ELSE OffsetOf(nibs, j - 1) + Len(nibs[j - 1])
TrackFrom(fields, nibs, strm, start) ==
    [present |-> TRUE, strm |-> strm, fields |-> fields,
     offsets |-> SubSeq([j \in 1..Len(fields) |-> OffsetOf(nibs, j)],
                        1, Len(fields)),
     start |-> start % Len(strm)]
TrackNibbles(fields, nibs, start) ==
    TrackFrom(fields, nibs, Concat(nibs), start)
TrackFields(fields, start) ==
    TrackNibbles(fields,
                 SubSeq([j \in 1..Len(fields) |-> FieldNibbles(fields[j])],
                        1, Len(fields)),
                 start)
TrackOf(fields, start) == TrackFields(SubSeq(fields, 1, Len(fields)), start)

AbsentTrack ==
    [present |-> FALSE, strm |-> << >>, fields |-> << >>, offsets |-> << >>,
     start |-> 0]

\* The number of disk images tried, and the step between the cursor's
\* starting positions on successive tracks.
NumImages == 6
StartStride == 211

\* The multipliers of the rotational orders: slot j of track t holds sector
\* (j * mult + t) % 16.
Multipliers == << 1, 3, 5, 7, 11, 13 >>
SectorInSlot(t, j) ==
    (j * Multipliers[(t % Len(Multipliers)) + 1] + t) % NumSectors

\* Image 0: every track present, every sector well written; the rotational
\* order and the cursor's starting position differ from track to track.
GoodTrack(t) ==
    TrackOf([j \in 1..NumSectors |-> GoodField(t, SectorInSlot(t, j - 1))],
            StartStride * t)

\* The other images: one track in three is present; one of its fields is
\* damaged, the slot and the kind of damage depending on the track.
DamagedTrack(k, t) ==
    LET slot == (t + k) % NumSectors
        defect == Defects[(((t \div 3) + 6 * k) % Len(Defects)) + 1]
    IN  TrackOf([j \in 1..NumSectors |->
                    IF j - 1 = slot
                    THEN Damaged(GoodField(t, SectorInSlot(t, j - 1)), defect)
                    ELSE GoodField(t, SectorInSlot(t, j - 1))],
                IF t % 2 = 0 THEN StartStride * (t + k)
                ELSE slot * GoodFieldLen + (t % 7))

\* A track whose only field has no address prologue: the track starts with
\* the volume nibbles.
NoPrologueTrack(t) ==
    TrackOf(<< [GoodField(t, 3) EXCEPT !.lead = << >>, !.apro = << >>,
                                       !.defect = "NoAddressPrologue"] >>,
            StartStride)

\* A track of sync nibbles only.
BlankTrack ==
    [present |-> TRUE, strm |-> Repeat(255, 2 * Tolerance), fields |-> << >>,
     offsets |-> << >>, start |-> 0]

\* A track whose sector in slot 4 ends with a checksum nibble that is not in
\* the alphabet.
BadChecksumNibbleTrack(t) ==
    TrackOf([j \in 1..NumSectors |->
                IF j = 5
                THEN Damaged(GoodField(t, SectorInSlot(t, j - 1)),
                             "BadChecksumNibble")
                ELSE GoodField(t, SectorInSlot(t, j - 1))],
            0)

\* A track with its 16 sectors well written and a 17th field after them: a
\* damaged second copy of the sector in slot 3. The cursor starts in the
\* gap before the first field.
ExtraDefects ==
    << "DataChecksum", "ForeignSector", "LateAddressEpilogue",
       "LateDataEpilogue", "SyncAtWindowEnd", "PrologueAtWindowEnd",
       "PrologueLate", "NoSync", "ThirdEpilogueByte" >>
ExtraFieldTrack(t, defect) ==
    TrackOf([j \in 1..(NumSectors + 1) |->
                IF j = NumSectors + 1
                THEN Damaged(GoodField(t, SectorInSlot(t, 3)), defect)
                ELSE GoodField(t, SectorInSlot(t, j - 1))],
            t % GapLen)

\* Image 4: every sector of every track well written, with a 17th field on
\* the first tracks. Image 5: the first track has a checksum nibble that
\* is not in the alphabet.
ExtraFieldImage == 4
EarlyCrashImage == 5

ImageTrack(k, t) ==
    IF k = 0 THEN GoodTrack(t)
    ELSE IF k = ExtraFieldImage
    THEN (IF t < Len(ExtraDefects)
          THEN ExtraFieldTrack(t, ExtraDefects[t + 1])
          ELSE GoodTrack(t))
    ELSE IF k = EarlyCrashImage THEN BadChecksumNibbleTrack(t)
    ELSE IF k % 3 = 0 /\ t = 1 THEN NoPrologueTrack(t)
    ELSE IF k % 3 = 0 /\ t = 2 THEN BlankTrack
    ELSE IF k % 3 = 2 /\ t = 31 THEN BadChecksumNibbleTrack(t)
    ELSE IF (t + k) % 3 = 0 THEN DamagedTrack(k, t)
    ELSE AbsentTrack

Images == [k \in 0..(NumImages - 1) |-> [t \in 0..(NumTracks - 1) |-> ImageTrack(k, t)]]

(***************************************************************************)
(* The program                                                             *)
(***************************************************************************)
VARIABLES
    image,      \* the disk image read (woz_image)
    pc,         \* where main is
    track_num,  \* main's loop variable
    pos,        \* the cursor of the current track
    sectors,    \* the map built by Track.sectors / used by main
    errors,     \* main's flag
    fp_pos,     \* the number of bytes written to the output file so far
    fp_last,    \* the bytes appended to it by the step just taken
    diag,       \* the lines printed
    status,     \* the exit status, -1 while running
    last,       \* the outcome of the last next_sector call
    calls,      \* the next_sector calls made by the current scan
    placeholders, \* the zero-filled placeholders written to the file so far
    arg,        \* the input of a codec function applied on its own
    res         \* what it returned

vars ==
    << image, pc, track_num, pos, sectors, errors, fp_pos, fp_last, diag,
       status, last, calls, placeholders, arg, res >>

Disk(k, t) == Images[k][t]

\* dict operations.
EmptyMap == << >>
Put(m, key, v) ==
    [x \in (DOMAIN m) \cup {key} |-> IF x = key THEN v ELSE m[x]]
Get(m, key) == IF key \in DOMAIN m THEN m[key] ELSE None

NoCall ==
    [kind |-> "none", track |-> 0, track_found |-> 0, sector_num |-> 0,
     found |-> FALSE, addr |-> 0, start |-> 0, pos |-> 0]

Init ==
    /\ image \in 0..(NumImages - 1)
    /\ pc = "seek"
    /\ track_num = 0
    /\ pos = 0
    /\ sectors = EmptyMap
    /\ errors = FALSE
    /\ fp_pos = 0
    /\ fp_last = << >>
    /\ diag = << >>
    /\ status = -1
    /\ last = NoCall
    /\ calls = 0
    /\ placeholders = 0
    /\ arg = None
    /\ res = None

\* Seek going straight to the next track when the track is missing.
Seek_skipping ==
    /\ pc = "seek"
    /\ track_num < NumTracks
    /\ IF ~Disk(image, track_num).present
       THEN /\ diag' = Append(diag, [kind |-> "TrackMissing",
                                     track |-> track_num])
            /\ sectors' = EmptyMap
            /\ errors' = TRUE
            /\ pc' = "seek"
            /\ track_num' = track_num + 1
            /\ pos' = pos
       ELSE /\ sectors' = EmptyMap
            /\ pos' = Disk(image, track_num).start
            /\ pc' = "scan"
            /\ UNCHANGED << diag, errors, track_num >>
    /\ last' = NoCall
    /\ calls' = 0
    /\ fp_last' = << >>
    /\ UNCHANGED << image, fp_pos, status, placeholders, arg, res >>

\* main, lines 281-288: disk.seek(track_num); a missing track is reported
\* and gets an empty map, a present one is scanned by track.sectors().
Seek ==
    /\ pc = "seek"
    /\ track_num < NumTracks
    /\ IF ~Disk(image, track_num).present
       THEN /\ diag' = Append(diag, [kind |-> "TrackMissing",
                                     track |-> track_num])
            /\ sectors' = EmptyMap
            /\ errors' = TRUE
            /\ pc' = "write"
            /\ pos' = pos
       ELSE /\ sectors' = EmptyMap
            /\ pos' = Disk(image, track_num).start
            /\ pc' = "scan"
            /\ UNCHANGED << diag, errors >>
    /\ last' = NoCall
    /\ calls' = 0
    /\ fp_last' = << >>
    /\ UNCHANGED << image, track_num, fp_pos, status, placeholders, arg,
                    res >>

\* The line printed for a SectorException.
Report(r) ==
    [kind |-> r.kind, track |-> r.track, sector |-> r.sector_num,
     track_found |-> r.track_found]

\* Handle leaving the map alone and going on after a SectorException.
Handle_retrying(r) ==
    /\ last' = [kind |-> r.kind, track |-> r.track,
                track_found |-> r.track_found,
                sector_num |-> r.sector_num, found |-> r.found,
                addr |-> r.addr, start |-> pos, pos |-> r.pos]
    /\ pos' = r.pos
    /\ IF r.kind = "InvalidDataNibble"
       THEN /\ pc' = "crashed"
            /\ status' = 1
            /\ UNCHANGED << sectors, diag >>
       ELSE /\ diag' = diag \o r.printed
                         \o (IF r.kind \in SectorExceptions
                             THEN << Report(r) >> ELSE << >>)
            /\ IF r.kind \in SectorExceptions
               THEN pc' = "scan" /\ sectors' = sectors
               ELSE IF r.sector_num \in DOMAIN sectors
               THEN pc' = "report" /\ sectors' = sectors
               ELSE pc' = "scan"
                    /\ sectors' = Put(sectors, r.sector_num, r.sector)
            /\ status' = status

\* Handle storing the outcome before it looks the number up.
Handle_overwriting(r) ==
    /\ last' = [kind |-> r.kind, track |-> r.track,
                track_found |-> r.track_found,
                sector_num |-> r.sector_num, found |-> r.found,
                addr |-> r.addr, start |-> pos, pos |-> r.pos]
    /\ pos' = r.pos
    /\ IF r.kind = "InvalidDataNibble"
       THEN /\ pc' = "crashed"
            /\ status' = 1
            /\ UNCHANGED << sectors, diag >>
       ELSE /\ diag' = diag \o r.printed
                         \o (IF r.kind \in SectorExceptions
                             THEN << Report(r) >> ELSE << >>)
            /\ pc' = IF r.sector_num \in DOMAIN sectors
                     THEN "report" ELSE "scan"
            /\ sectors' = Put(sectors, r.sector_num, r.sector)
            /\ status' = status

\* Handle going on after a SectorException without entering its number.
Handle_forgetting(r) ==
    /\ last' = [kind |-> r.kind, track |-> r.track,
                track_found |-> r.track_found,
                sector_num |-> r.sector_num, found |-> r.found,
                addr |-> r.addr, start |-> pos, pos |-> r.pos]
    /\ pos' = r.pos
    /\ IF r.kind = "InvalidDataNibble"
       THEN /\ pc' = "crashed"
            /\ status' = 1
            /\ UNCHANGED << sectors, diag >>
       ELSE /\ diag' = diag \o r.printed
                         \o (IF r.kind \in SectorExceptions
                             THEN << Report(r) >> ELSE << >>)
            /\ IF r.sector_num \in DOMAIN sectors
               THEN pc' = "report" /\ sectors' = sectors
               ELSE pc' = "scan"
                    /\ sectors' = IF r.kind \in SectorExceptions
                                  THEN sectors
                                  ELSE Put(sectors, r.sector_num, r.sector)
            /\ status' = status

\* Track.sectors, lines 236-245, r being what next_sector returned or
\* raised. An InvalidDataNibble is caught nowhere: it ends the program with
\* a traceback and exit status 1.
Handle(r) ==
    /\ last' = [kind |-> r.kind, track |-> r.track,
                track_found |-> r.track_found,
                sector_num |-> r.sector_num, found |-> r.found,
                addr |-> r.addr, start |-> pos, pos |-> r.pos]
    /\ pos' = r.pos
    /\ IF r.kind = "InvalidDataNibble"
       THEN /\ pc' = "crashed"
            /\ status' = 1
            /\ UNCHANGED << sectors, diag >>
       ELSE /\ diag' = diag \o r.printed
                         \o (IF r.kind \in SectorExceptions
                             THEN << Report(r) >> ELSE << >>)
            /\ IF r.sector_num \in DOMAIN sectors
               THEN pc' = "report" /\ sectors' = sectors
               ELSE pc' = "scan"
                    /\ sectors' = Put(sectors, r.sector_num, r.sector)
            /\ status' = status

\* One iteration of the loop of Track.sectors, lines 235-245.
ScanStep ==
    /\ pc = "scan"
    /\ Handle(next_sector(Disk(image, track_num).strm, pos, track_num))
    /\ calls' = calls + 1
    /\ UNCHANGED << image, track_num, errors, fp_pos, fp_last, placeholders,
                    arg, res >>

\* main, lines 289-294: the sectors missing from the map are reported.
ReportMissing ==
    /\ pc = "report"
    /\ LET missing_sectors == (0..(NumSectors - 1)) \ DOMAIN sectors
       IN  IF missing_sectors # {}
           THEN /\ diag' = Append(diag, [kind |-> "MissingSectors",
                                         track |-> track_num,
                                         sectors |-> missing_sectors])
                /\ errors' = TRUE
           ELSE UNCHANGED << diag, errors >>
    /\ pc' = "write"
    /\ UNCHANGED << image, track_num, pos, sectors, fp_pos, fp_last, status,
                    last, calls, placeholders, arg, res >>

\* The sector main writes for sector_num, lines 296-298, and whether it is a
\* placeholder.
IsPlaceholder(m, sector_num) == Get(m, sector_num) = None
Written(m, tn, sector_num) ==
    IF IsPlaceholder(m, sector_num)
    THEN Sector(None, tn, sector_num, None)
    ELSE Get(m, sector_num)[1]

\* main, lines 295-300: the 16 sectors of the track are written in
\* DOS_33_ORDER, and the loop goes on to the next track. The file is only
\* ever appended to: fp.write puts its bytes at position fp_pos and moves
\* fp_pos past them.
Appended(m, tn) ==
    Concat([i \in 1..Len(DOS_33_ORDER) |->
               Written(m, tn, DOS_33_ORDER[i]).data])
Write ==
    /\ pc = "write"
    /\ fp_last' = Appended(sectors, track_num)
    /\ fp_pos' = fp_pos + Len(Appended(sectors, track_num))
    /\ errors' = (errors \/ \E i \in 1..Len(DOS_33_ORDER) :
                                IsPlaceholder(sectors, DOS_33_ORDER[i]))
    /\ placeholders' =
          placeholders + Cardinality({i \in 1..Len(DOS_33_ORDER) :
                                        IsPlaceholder(sectors, DOS_33_ORDER[i])})
    /\ track_num' = track_num + 1
    /\ pc' = "seek"
    /\ UNCHANGED << image, pos, sectors, diag, status, last, calls, arg,
                    res >>

\* main, lines 302-303: the exit status.
Exit ==
    /\ pc = "seek"
    /\ track_num = NumTracks
    /\ status' = IF errors THEN 1 ELSE 0
    /\ pc' = "done"
    /\ UNCHANGED << image, track_num, pos, sectors, errors, fp_pos, fp_last,
                    diag, last, calls, placeholders, arg, res >>

Next == Seek \/ ScanStep \/ ReportMissing \/ Write \/ Exit

Spec == Init /\ [][Next]_vars

(***************************************************************************)
(* The codec functions applied on their own                                *)
(***************************************************************************)
\* The payloads tried: byte i is i * mul + (i \div 16) * add; mul = 1 and
\* add = 0 give the bytes 0, 1, ..., 255.
MaxMul == 5
MaxAdd == 7
CodecPayload(mul, add) ==
    SubSeq([i \in 1..SectorBytes |->
               ((i - 1) * mul + ((i - 1) \div 16) * add) % 256],
           1, SectorBytes)
ByteValues == 0..255

\* The writes of the first loop of decode_62, iteration by iteration.
FirstPass(rcs) ==
    SubSeq([k \in 1..AuxNibbles |-> FirstPassWrites(k - 1, rcs[k])],
           1, AuxNibbles)

\* What is kept of a decode_62 call on the 343 nibbles written for a
\* payload: what it returned for the first 342, the writes of its first
\* loop, and decode_62_nibble of the trailing checksum nibble.
Decode62Call(nibbles, data) ==
    [ret |-> decode_62(data),
     first_pass |-> FirstPass(RunningChecksums(NibbleValues(data))),
     trailing |-> decode_62_nibble(nibbles[DataNibbles + 1])]

CodecInit ==
    /\ image = 0
    /\ pc = "codec"
    /\ track_num = 0
    /\ pos = 0
    /\ sectors = EmptyMap
    /\ errors = FALSE
    /\ fp_pos = 0
    /\ fp_last = << >>
    /\ diag = << >>
    /\ status = -1
    /\ last = NoCall
    /\ calls = 0
    /\ placeholders = 0
    /\ arg \in [op : {"decode_44"}, xx : ByteValues, yy : ByteValues]
               \cup [op : {"decode_62"}, mul : 0..MaxMul, add : 0..MaxAdd]
    /\ res = None

ApplyDecode44 ==
    /\ pc = "codec"
    /\ arg.op = "decode_44"
    /\ res = None
    /\ res' = Some(decode_44(arg.xx, arg.yy))
    /\ UNCHANGED << image, pc, track_num, pos, sectors, errors, fp_pos,
                    fp_last, diag, status, last, calls, placeholders, arg >>

ApplyDecode62 ==
    /\ pc = "codec"
    /\ arg.op = "decode_62"
    /\ res = None
    /\ res' = Some(Decode62Call(encode_62(CodecPayload(arg.mul, arg.add)),
                                SubSeq(encode_62(CodecPayload(arg.mul,
                                                              arg.add)),
                                       1, DataNibbles)))
    /\ UNCHANGED << image, pc, track_num, pos, sectors, errors, fp_pos,
                    fp_last, diag, status, last, calls, placeholders, arg >>

CodecNext == ApplyDecode44 \/ ApplyDecode62

CodecSpec == CodecInit /\ [][CodecNext]_vars

(***************************************************************************)
(* What the properties below speak of                                      *)
(***************************************************************************)
\* The track being read, and whether a next_sector call of its scan is on
\* record in last.
CurrentTrack == Disk(image, IF track_num < NumTracks THEN track_num ELSE 0)
Scanning == pc \in {"scan", "report", "crashed"} /\ last.kind # "none"

\* The written fields whose address bytes start where the last search for the
\* address prologue left the cursor.
FieldsAt(trk, addr) ==
    {j \in 1..Len(trk.fields) :
        (trk.offsets[j] + Len(trk.fields[j].lead) + Len(trk.fields[j].apro))
            % Len(trk.strm) = addr}
ReadsField == Scanning /\ last.found /\ FieldsAt(CurrentTrack, last.addr) # {}
LastField ==
    CurrentTrack.fields[CHOOSE j \in FieldsAt(CurrentTrack, last.addr) : TRUE]

\* The fields of the current track with the given damage.
FieldsWith(defects) ==
    {j \in 1..Len(CurrentTrack.fields) :
        CurrentTrack.fields[j].defect \in defects}

\* XOR written out bit by bit over a byte.
BitXor8(a, b) ==
    LET bit(x, k) == (x \div (2 ^ k)) % 2
        sum[k \in 0..8] ==
            IF k = 8 THEN 0
            ELSE ((bit(a, k) + bit(b, k)) % 2) * (2 ^ k) + sum[k + 1]
    IN  sum[0]

\* OR written out bit by bit over a byte.
BitOr8(a, b) ==
    LET bit(x, k) == (x \div (2 ^ k)) % 2
        sum[k \in 0..8] ==
            IF k = 8 THEN 0
            ELSE (IF bit(a, k) + bit(b, k) > 0 THEN 2 ^ k ELSE 0) + sum[k + 1]
    IN  sum[0]

\* The lines printed so far that are equal to line.
Printed(line) == \E i \in 1..Len(diag) : diag[i] = line
SectorLine(kind, t, s) ==
    [kind |-> kind, track |-> t, sector |-> s, track_found |-> t]

TrackBytes == NumSectors * SectorBytes
ZeroSector == SubSeq(Zeros(SectorBytes), 1, SectorBytes)
ZeroTrack == SubSeq(Zeros(TrackBytes), 1, TrackBytes)
Interleave == << 0, 13, 11, 9, 7, 5, 3, 1, 14, 12, 10, 8, 6, 4, 2, 15 >>

(***************************************************************************)
(* C1                                                                      *)
(***************************************************************************)
\* C1 as stated: the scan of a track ends only on a successfully decoded
\* sector whose number is already in the map; a next_sector call that fails
\* with a SectorException is never the last call of the scan.
C1_EndsOnlyOnSuccess == (pc = "report") => (last.kind = "Sector")

\* C1, amended: Track.sectors() returns exactly when a next_sector call
\* yields, by its return or by the SectorException it raises, a sector number
\* that is already a key of the map, and then the map is returned as it was;
\* a SectorException is reported, and when its sector number is new it is
\* entered in the map with no Sector and another next_sector call follows.
C1_StepRule ==
    (pc = "scan" /\ pc' # "crashed") =>
        /\ (pc' = "report") <=> (last'.sector_num \in DOMAIN sectors)
        /\ (pc' = "report") => (sectors' = sectors)
        /\ (pc' # "report") => (pc' = "scan")
        /\ (last'.kind \in SectorExceptions) =>
              /\ Len(diag') > Len(diag)
              /\ diag'[Len(diag')].kind = last'.kind
              /\ diag'[Len(diag')].track = track_num
              /\ diag'[Len(diag')].sector = last'.sector_num
              /\ (last'.sector_num \notin DOMAIN sectors) =>
                    /\ pc' = "scan"
                    /\ sectors' = Put(sectors, last'.sector_num, None)
C1_EndsOnRepeatedNumber == [][C1_StepRule]_vars

\* A scan has ended on a failed next_sector call.
C1_Witness == pc = "report" /\ last.kind \in SectorExceptions

(***************************************************************************)
(* C2                                                                      *)
(***************************************************************************)
\* The current track holds the 16 sectors 0..15, each well written.
WellWritten(trk) ==
    /\ trk.present
    /\ Len(trk.fields) = NumSectors
    /\ \A j \in 1..NumSectors : trk.fields[j].defect = "none"
    /\ {trk.fields[j].sec : j \in 1..NumSectors} = 0..(NumSectors - 1)

\* C2: the scan of a well-written track, whatever its rotational order and
\* wherever the cursor starts, returns a map with exactly the keys 0..15,
\* each mapped to a Sector carrying the payload written in that sector.
C2_AllSixteenDecoded ==
    (pc = "report" /\ WellWritten(CurrentTrack)) =>
        /\ DOMAIN sectors = 0..(NumSectors - 1)
        /\ \A n \in 0..(NumSectors - 1) :
              /\ sectors[n] # None
              /\ sectors[n][1].sector_num = n
              /\ sectors[n][1].track_num = track_num
              /\ sectors[n][1].data = Payload(track_num, n)

\* A well-written track, in an order other than 0, 1, ..., 15 and with the
\* cursor starting inside a field, has been scanned to the end.
C2_Witness ==
    /\ pc = "report"
    /\ WellWritten(CurrentTrack)
    /\ CurrentTrack.fields[2].sec # CurrentTrack.fields[1].sec + 1
    /\ CurrentTrack.start % GoodFieldLen > 2 * GapLen
    /\ DOMAIN sectors = 0..(NumSectors - 1)

(***************************************************************************)
(* C3                                                                      *)
(***************************************************************************)
\* Whether sector number n was decoded on the track whose map is m.
DecodedIn(m, n) == n \in DOMAIN m /\ m[n] # None

\* C3: when main writes track t, the bytes it appends are put at positions
\* t*4096 .. t*4096 + 4095 of the image, and bytes t*4096 + i*256 ..
\* t*4096 + i*256 + 255 are the payload of the sector numbered Interleave[i]
\* of that track's map when it was decoded, and zeros otherwise; no other
\* step writes to the image; Interleave is a permutation of 0..15.
C3_WriteRule ==
    /\ (pc = "write") =>
          /\ fp_pos = track_num * TrackBytes
          /\ fp_pos' = fp_pos + Len(fp_last')
          /\ Len(fp_last') = TrackBytes
          /\ \A i \in 0..(NumSectors - 1) :
                SubSeq(fp_last', i * SectorBytes + 1, (i + 1) * SectorBytes)
                  = IF DecodedIn(sectors, Interleave[i + 1])
                    THEN sectors[Interleave[i + 1]][1].data
                    ELSE ZeroSector
    /\ (pc # "write") => (fp_pos' = fp_pos)
    /\ {Interleave[i] : i \in 1..NumSectors} = 0..(NumSectors - 1)
C3_InterleavedImage == [][C3_WriteRule]_vars

\* A track has been written with a decoded sector whose payload is not
\* zero in slot 1 and a placeholder in some other slot.
C3_Witness ==
    /\ pc = "seek"
    /\ track_num > 0
    /\ fp_pos = track_num * TrackBytes
    /\ DecodedIn(sectors, 13)
    /\ SubSeq(fp_last, SectorBytes + 1, 2 * SectorBytes) = sectors[13][1].data
    /\ sectors[13][1].data # ZeroSector
    /\ \E n \in 0..(NumSectors - 1) : ~DecodedIn(sectors, n)

(***************************************************************************)
(* C4                                                                      *)
(***************************************************************************)
\* C4: an absent track is reported missing, gets an empty map and has 4096
\* zero bytes written at its place in the image, after which main goes on
\* with the next track; the image grows by one track of 4096 bytes at a
\* time, in ascending track order, and a run that completes has written
\* 35 * 16 * 256 = 143360 bytes.
C4_MissingTrackZeroFilled ==
    /\ fp_pos = TrackBytes * track_num
    /\ (pc = "write" /\ ~CurrentTrack.present) =>
          /\ sectors = EmptyMap
          /\ errors
          /\ diag[Len(diag)] = [kind |-> "TrackMissing", track |-> track_num]
    /\ (pc = "seek" /\ track_num > 0
          /\ ~Disk(image, track_num - 1).present) =>
          /\ fp_last = ZeroTrack
          /\ status = -1
    /\ (pc = "done") => (track_num = NumTracks /\ fp_pos = 143360)

\* A run has completed on an image whose last track is absent and follows a
\* present one.
C4_Witness ==
    /\ pc = "done"
    /\ fp_last = ZeroTrack
    /\ ~Disk(image, NumTracks - 1).present
    /\ Disk(image, NumTracks - 2).present

(***************************************************************************)
(* C5                                                                      *)
(***************************************************************************)
\* C5: a next_sector call that reads an address field whose track number is
\* not the scanned track raises TrackMismatch with the scanned track, the
\* track number found and the sector number of that field, whatever the
\* checksum of the field, having read the six nibbles of volume, track and
\* sector and not the two checksum nibbles; and it raises TrackMismatch in no
\* other case.
C5_TrackMismatch ==
    ReadsField =>
        /\ (LastField.trk # track_num) =>
              /\ last.kind = "TrackMismatch"
              /\ last.track = track_num
              /\ last.track_found = LastField.trk
              /\ last.sector_num = LastField.sec
              /\ last.pos = (last.addr + 6) % Len(CurrentTrack.strm)
              /\ pc # "crashed"
              /\ diag[Len(diag)] =
                    [kind |-> "TrackMismatch", track |-> track_num,
                     sector |-> LastField.sec, track_found |-> LastField.trk]
        /\ (LastField.trk = track_num) => (last.kind # "TrackMismatch")

\* A TrackMismatch was raised for a field of another track whose address
\* checksum is wrong as well.
C5_Witness ==
    /\ ReadsField
    /\ LastField.trk # track_num
    /\ LastField.ck # BitXor8(BitXor8(LastField.vol, LastField.trk),
                              LastField.sec)
    /\ last.kind = "TrackMismatch"

(***************************************************************************)
(* C6                                                                      *)
(***************************************************************************)
\* What next_sector can end in once the address checksum has been accepted.
AfterAddressChecksum ==
    { "AddressEpilogueNotFound", "DataSyncBytesNotFound",
      "DataPrologueNotFound", "BadData", "InvalidDataNibble",
      "DataChecksumMismatch", "DataEpilogueNotFound", "Sector" }

\* C6: a next_sector call that reads an address field carrying the scanned
\* track raises AddressChecksumMismatch(track, sector) exactly when the
\* checksum of the field differs from volume XOR track XOR sector, having read
\* the eight address nibbles; otherwise it goes on to the search for the
\* address epilogue, which reads at least one more nibble.
C6_AddressChecksum ==
    (ReadsField /\ LastField.trk = track_num) =>
        IF LastField.ck # BitXor8(BitXor8(LastField.vol, LastField.trk),
                                  LastField.sec)
        THEN /\ last.kind = "AddressChecksumMismatch"
             /\ last.track = track_num
             /\ last.sector_num = LastField.sec
             /\ last.pos = (last.addr + 8) % Len(CurrentTrack.strm)
             /\ diag[Len(diag)] = SectorLine("AddressChecksumMismatch",
                                             track_num, LastField.sec)
        ELSE /\ last.kind \in AfterAddressChecksum
             /\ last.pos # (last.addr + 8) % Len(CurrentTrack.strm)
             /\ (LastField.defect = "AddressEpilogue") =>
                    /\ last.kind = "AddressEpilogueNotFound"
                    /\ last.pos = (last.addr + 10) % Len(CurrentTrack.strm)

\* An AddressChecksumMismatch was raised on a field of the scanned track.
C6_Witness ==
    /\ ReadsField
    /\ LastField.trk = track_num
    /\ LastField.trk # 0
    /\ last.kind = "AddressChecksumMismatch"

(***************************************************************************)
(* C7                                                                      *)
(***************************************************************************)
\* Whether one field only of the current track is numbered s.
OnlyField(s) ==
    Cardinality({j \in 1..Len(CurrentTrack.fields) :
                    CurrentTrack.fields[j].sec = s}) = 1

\* What the scan of a track with a field of bad data checksum reports.
C7_Reported(f) ==
    Printed(SectorLine("DataChecksumMismatch", track_num, f.sec))

\* C7 as stated: after the scan of a track holding a field with a correct
\* address field for sector s and a data checksum nibble that does not match,
\* DataChecksumMismatch(t, s) has been reported and s is not a key of the
\* map returned.
C7_SectorNotAKey ==
    (pc = "report") =>
        \A j \in FieldsWith({"DataChecksum"}) :
            /\ C7_Reported(CurrentTrack.fields[j])
            /\ CurrentTrack.fields[j].sec \notin DOMAIN sectors

\* C7, amended: ... DataChecksumMismatch(t, s) has been reported, and, that
\* field being the only one numbered s on the track, s is a key of the map
\* returned, mapped to None: the map holds no Sector for s. The call that
\* reads the field is the one that raises, with exactly (t, s).
C7_SectorMappedToNone ==
    /\ (pc = "report") =>
          \A j \in FieldsWith({"DataChecksum"}) :
              /\ C7_Reported(CurrentTrack.fields[j])
              /\ CurrentTrack.fields[j].sec \in DOMAIN sectors
              /\ OnlyField(CurrentTrack.fields[j].sec) =>
                    (sectors[CurrentTrack.fields[j].sec] = None)
    /\ (ReadsField /\ LastField.defect = "DataChecksum") =>
          /\ last.kind = "DataChecksumMismatch"
          /\ last.track = track_num
          /\ last.sector_num = LastField.sec
          /\ OnlyField(LastField.sec) => (Get(sectors, LastField.sec) = None)

\* The scan of a track with such a field has returned, other sectors of the
\* track having been decoded.
C7_Witness ==
    /\ pc = "report"
    /\ FieldsWith({"DataChecksum"}) # {}
    /\ \A j \in FieldsWith({"DataChecksum"}) :
          OnlyField(CurrentTrack.fields[j].sec)
    /\ \A j \in FieldsWith({"DataChecksum"}) :
          /\ C7_Reported(CurrentTrack.fields[j])
          /\ CurrentTrack.fields[j].dck \in {ENCODE_62[v] : v \in 1..64}
    /\ \E n \in DOMAIN sectors : sectors[n] # None

(***************************************************************************)
(* C8                                                                      *)
(***************************************************************************)
Alphabet == {ENCODE_62[v] : v \in 1..Len(ENCODE_62)}
HasBadDataNibble(f) == \E k \in 1..DataNibbles : f.data[k] \notin Alphabet

\* C8: a next_sector call that reads a field whose address field is valid and
\* whose 342 data nibbles include one outside the alphabet raises
\* BadData(track, sector) with the sector number of the address field, after
\* printing the InvalidDataNibble that decode_62 raised instead of returning
\* a payload; no Sector is put in the map for that attempt.
C8_BadData ==
    (ReadsField /\ LastField.defect \in {"BadNibble", "BadNibbleLast"}) =>
        /\ HasBadDataNibble(LastField)
        /\ ~decode_62(LastField.data).ok
        /\ decode_62(LastField.data).data = << >>
        /\ decode_62(LastField.data).nibble \notin Alphabet
        /\ last.kind = "BadData"
        /\ last.track = track_num
        /\ last.sector_num = LastField.sec
        /\ pc # "crashed"
        /\ Get(sectors, LastField.sec) = None
        /\ Len(diag) >= 2
        /\ diag[Len(diag) - 1] =
              [kind |-> "InvalidDataNibble",
               nibble |-> decode_62(LastField.data).nibble]
        /\ diag[Len(diag)] = SectorLine("BadData", track_num, LastField.sec)

\* BadData was raised for a field whose last data nibble is the bad one.
C8_Witness ==
    /\ ReadsField
    /\ LastField.defect = "BadNibbleLast"
    /\ LastField.data[DataNibbles] \notin Alphabet
    /\ last.kind = "BadData"

(***************************************************************************)
(* C9                                                                      *)
(***************************************************************************)
\* C9 as stated: a next_sector call that reads a field with a nibble outside
\* the alphabet in its data field or as its trailing checksum nibble ends in
\* a SectorException, which Track.sectors() handles: the program goes on.
C9_BadNibbleIsRecoverable ==
    (ReadsField /\ LastField.trk = track_num
        /\ (HasBadDataNibble(LastField) \/ LastField.dck \notin Alphabet)) =>
        /\ last.kind \in SectorExceptions
        /\ pc \in {"scan", "report"}

(***************************************************************************)
(* C10                                                                     *)
(***************************************************************************)
\* C10 as stated: a next_sector call whose search for the address prologue
\* fails reads no nibble after the search, produces no result, and ends the
\* scan of the track with the map as it was.
C10_NoPrologueEndsScan ==
    (Scanning /\ ~last.found) =>
        /\ last.pos = last.addr
        /\ last.kind = "NoResult"
        /\ pc = "report"


(***************************************************************************)
(* C11                                                                     *)
(***************************************************************************)
\* The defects a run reports: the line of a SectorException, of the sectors
\* missing from a track, of a missing track.
DefectKinds == SectorExceptions \cup {"MissingSectors", "TrackMissing"}
DefectReported == \E i \in 1..Len(diag) : diag[i].kind \in DefectKinds

\* C11 as stated: when main has run to its end, the exit status is non-zero
\* if and only if a defect was reported during the run: a SectorException of
\* some next_sector call, a missing sector or a missing track.
C11_StatusReflectsDefects ==
    (pc = "done") => ((status # 0) <=> DefectReported)


(***************************************************************************)
(* C12                                                                     *)
(***************************************************************************)
\* C12: decode_62 applied to the 342 nibbles a 6-and-2 encoder writes for a
\* payload returns exactly that payload, and the checksum it returns is the
\* six-bit value of the encoder's trailing checksum nibble, so that the
\* running XOR is zero once that value is XORed in; so for 0, 1, ..., 255.
C12_RoundTrip ==
    (arg # None /\ res # None /\ arg.op = "decode_62") =>
        /\ res[1].ret.ok
        /\ res[1].ret.data = CodecPayload(arg.mul, arg.add)
        /\ Len(res[1].ret.data) = SectorBytes
        /\ res[1].trailing.ok
        /\ res[1].ret.checksum = res[1].trailing.val
        /\ BitXor8(res[1].ret.checksum, res[1].trailing.val) = 0

\* The payload 0, 1, ..., 255 has been decoded back.
C12_Witness ==
    /\ arg # None /\ res # None /\ arg.op = "decode_62"
    /\ arg.mul = 1 /\ arg.add = 0
    /\ res[1].ret.data = [i \in 1..SectorBytes |-> i - 1]

(***************************************************************************)
(* C13                                                                     *)
(***************************************************************************)
\* The 4-and-4 encoded pair of each byte x: (x >> 1) | 0xAA and x | 0xAA.
Pair44 == [x \in ByteValues |-> << BitOr8(x \div 2, 170), BitOr8(x, 170) >>]

\* C13: decode_44 of any two bytes is a byte; of the 4-and-4 encoded pair of
\* a byte x, (x >> 1) | 0xAA and x | 0xAA, it is x.
C13_Decode44 ==
    (arg # None /\ res # None /\ arg.op = "decode_44") =>
        /\ res[1] \in ByteValues
        /\ \A x \in ByteValues :
              (Pair44[x] = << arg.xx, arg.yy >>) => (res[1] = x)

\* The encoded pair of a byte has been decoded.
C13_Witness ==
    /\ arg # None /\ res # None /\ arg.op = "decode_44"
    /\ << arg.xx, arg.yy >> = Pair44[77]
    /\ res[1] = 77


(***************************************************************************)
(* C18                                                                     *)
(***************************************************************************)
\* The output indexes written by iteration idx of the first loop.
FirstPassTargets(idx) ==
    IF idx <= 83
    THEN << idx, idx + AuxNibbles, idx + 2 * AuxNibbles >>
    ELSE << idx, idx + AuxNibbles >>

\* The writes of the first loop that go to output[i].
FirstPassWritesTo(first_pass, i) ==
    {w \in {<< k, j >> : k \in 1..AuxNibbles, j \in 1..3} :
        /\ w[2] <= Len(first_pass[w[1]])
        /\ first_pass[w[1]][w[2]].at = i}

\* C18: in the first loop of decode_62, iterations 0..83 write to the three
\* output bytes idx, idx + 86 and idx + 172, iterations 84 and 85 to idx and
\* idx + 86 only; what is XORed in is a two-bit group of the running
\* checksum with its two bits exchanged; no index above 255 is written, and
\* each of the bytes 172..255 is written once.
C18_FirstPass ==
    (arg # None /\ res # None /\ arg.op = "decode_62") =>
        /\ Len(res[1].first_pass) = AuxNibbles
        /\ \A k \in 1..AuxNibbles :
              /\ [j \in 1..Len(res[1].first_pass[k]) |->
                     res[1].first_pass[k][j].at] = FirstPassTargets(k - 1)
              /\ \A j \in 1..Len(res[1].first_pass[k]) :
                    /\ res[1].first_pass[k][j].at <= 255
                    /\ res[1].first_pass[k][j].val =
                          Swapped[((SixBitValues(CodecPayload(arg.mul,
                                                              arg.add))[k]
                                      \div (4 ^ (j - 1))) % 4) + 1]
        /\ \A i \in (2 * AuxNibbles)..255 :
              Cardinality(FirstPassWritesTo(res[1].first_pass, i)) = 1

\* The payload 0, 1, ..., 255 has been decoded: iteration 83 wrote the low
\* bits of byte 255, iterations 84 and 85 wrote twice each.
C18_Witness ==
    /\ arg # None /\ res # None /\ arg.op = "decode_62"
    /\ arg.mul = 1 /\ arg.add = 0
    /\ res[1].first_pass[84][3] = [at |-> 255, val |-> 3]
    /\ Len(res[1].first_pass[85]) = 2
    /\ Len(res[1].first_pass[86]) = 2
    /\ res[1].first_pass[86][2].at = 171


(***************************************************************************)
(* C14                                                                     *)
(***************************************************************************)
\* The numbers of nibbles read from p on, up to n, after which the marker
\* has just been read in full.
MarkerEnds(p, marker, n) ==
    {k \in Len(marker)..n :
        \A j \in 1..Len(marker) :
            Nib(CurrentTrack.strm, p + k - Len(marker) + j - 1) = marker[j]}

\* Where the searches of the last next_sector call start: the address
\* epilogue after the eight address nibbles, the sync byte after the
\* epilogue's three, the data prologue after the sync byte found, the data
\* epilogue after the data prologue, 342 nibbles and the checksum nibble.
AEpiAt == last.addr + 8
SyncAt == AEpiAt + 3
SyncEnds == MarkerEnds(SyncAt, SYNC_BYTE, Tolerance)
ProAt == SyncAt + Min(SyncEnds)
ProEnds == MarkerEnds(ProAt, DEFAULT_DATA_PROLOGUE, Tolerance)
DEpiAt == ProAt + Min(ProEnds) + DataNibbles + 1
EndsAt(p) == last.pos = p % Len(CurrentTrack.strm)
PastAddress ==
    ReadsField /\ last.kind \notin {"TrackMismatch", "AddressChecksumMismatch"}

\* C14 as stated: the searches for the two epilogues have the window of 20
\* nibbles of the other two: they fail only when the marker is not read in
\* full within the next 20 nibbles.
C14_SameWindow ==
    PastAddress =>
        /\ (last.kind = "AddressEpilogueNotFound") =>
              (MarkerEnds(AEpiAt, SubSeq(DEFAULT_ADDRESS_EPILOGUE, 1, 2),
                          Tolerance) = {})
        /\ (last.kind = "DataEpilogueNotFound") =>
              (MarkerEnds(DEpiAt, SubSeq(DEFAULT_DATA_EPILOGUE, 1, 2),
                          Tolerance) = {})

\* C14, amended: the searches for the sync byte and for the data prologue
\* have a window of 20 nibbles, those for the first two bytes of the address
\* and of the data epilogue a window of 2: each succeeds exactly when its
\* marker has been read in full within its window, the call going on from
\* the nibble after the marker, and otherwise fails with its own kind, the
\* window's number of nibbles having been read and no more.
C14_Windows ==
    PastAddress =>
        IF MarkerEnds(AEpiAt, SubSeq(DEFAULT_ADDRESS_EPILOGUE, 1, 2), 2) = {}
        THEN last.kind = "AddressEpilogueNotFound" /\ EndsAt(AEpiAt + 2)
        ELSE IF MarkerEnds(SyncAt, SYNC_BYTE, 20) = {}
        THEN last.kind = "DataSyncBytesNotFound" /\ EndsAt(SyncAt + 20)
        ELSE IF MarkerEnds(ProAt, DEFAULT_DATA_PROLOGUE, 20) = {}
        THEN last.kind = "DataPrologueNotFound" /\ EndsAt(ProAt + 20)
        ELSE /\ last.kind \in {"BadData", "InvalidDataNibble",
                                "DataChecksumMismatch",
                                "DataEpilogueNotFound", "Sector"}
             /\ (last.kind = "BadData") => EndsAt(DEpiAt - 1)
             /\ (last.kind = "DataChecksumMismatch") => EndsAt(DEpiAt)
             /\ (last.kind \in {"DataEpilogueNotFound", "Sector"}) =>
                   IF MarkerEnds(DEpiAt, SubSeq(DEFAULT_DATA_EPILOGUE, 1, 2),
                                 2) = {}
                   THEN last.kind = "DataEpilogueNotFound"
                        /\ EndsAt(DEpiAt + 2)
                   ELSE last.kind = "Sector" /\ EndsAt(DEpiAt + 3)

\* Each of the four searches has failed in the run: the two for an epilogue
\* although the marker followed within 20 nibbles, the one for the data
\* prologue on a marker ending on the 21st nibble, and now the one for the
\* sync byte, 20 nibbles having been read.
C14_Witness ==
    /\ PastAddress
    /\ LastField.defect = "NoSync"
    /\ last.kind = "DataSyncBytesNotFound"
    /\ EndsAt(SyncAt + 20)
    /\ MarkerEnds(AEpiAt, SubSeq(DEFAULT_ADDRESS_EPILOGUE, 1, 2), 2) # {}
    /\ \E i \in 1..Len(diag) : diag[i].kind = "AddressEpilogueNotFound"
    /\ \E i \in 1..Len(diag) : diag[i].kind = "DataEpilogueNotFound"
    /\ \E i \in 1..Len(diag) : diag[i].kind = "DataPrologueNotFound"


(***************************************************************************)
(* C15                                                                     *)
(***************************************************************************)
\* C15: from the first next_sector call of a scan until main has written the
\* track, no step changes or removes an entry of the map: a call's outcome
\* adds an entry for a number that is no key yet or leaves the map as it
\* is, and the map returned on a repeated number is the map as it was before
\* the call that repeated it.
C15_StepRule ==
    (pc \in {"scan", "report", "write"}) =>
        /\ \A n \in DOMAIN sectors :
              n \in DOMAIN sectors' /\ sectors'[n] = sectors[n]
        /\ (pc = "scan" /\ pc' = "report") => (sectors' = sectors)
        /\ (pc = "scan" /\ pc' = "scan") =>
              (DOMAIN sectors' = DOMAIN sectors \cup {last'.sector_num})
C15_EntriesImmutable == [][C15_StepRule]_vars

\* A scan has ended on a call that failed for a sector number the map holds
\* a decoded Sector for.
C15_Witness ==
    /\ pc = "report"
    /\ last.kind \in SectorExceptions
    /\ last.sector_num \in DOMAIN sectors
    /\ sectors[last.sector_num] # None


(***************************************************************************)
(* C16                                                                     *)
(***************************************************************************)
\* C16 as stated: every key of the map Track.sectors() returns is a sector
\* number in 0..15, whatever the nibble stream; here for the streams that
\* hold address fields, each found by its prologue.
C16_KeysAreSectorNumbers ==
    (pc = "report" /\ ReadsField /\ CurrentTrack.fields # << >>) =>
        (DOMAIN sectors \subseteq 0..(NumSectors - 1))


(***************************************************************************)
(* C17                                                                     *)
(***************************************************************************)
\* Whether the two nibbles at p are the first two bytes of the marker.
TwoBytesAt(p, marker) ==
    /\ Nib(CurrentTrack.strm, p) = marker[1]
    /\ Nib(CurrentTrack.strm, p + 1) = marker[2]

\* C17: once the first two bytes of the address epilogue have been matched
\* the call does not fail with AddressEpilogueNotFound and goes on from the
\* nibble after the next one; once the first two bytes of the data epilogue
\* have been matched the call returns the Sector, having read one nibble
\* more; so whatever the third nibble is. A field whose epilogues have a
\* third byte that is not the marker's is decoded like a well-written one.
C17_ThirdByteSkipped ==
    PastAddress =>
        /\ TwoBytesAt(AEpiAt, DEFAULT_ADDRESS_EPILOGUE) =>
              /\ last.kind # "AddressEpilogueNotFound"
              /\ (last.kind = "DataSyncBytesNotFound") =>
                    EndsAt(AEpiAt + 3 + Tolerance)
              /\ (last.kind # "DataSyncBytesNotFound") =>
                    (\E k \in 1..Tolerance :
                        /\ Nib(CurrentTrack.strm, AEpiAt + 2 + k) = 255
                        /\ ProAt = AEpiAt + 3 + k)
        /\ (last.kind \in {"Sector", "DataEpilogueNotFound"}
               /\ TwoBytesAt(DEpiAt, DEFAULT_DATA_EPILOGUE)) =>
              /\ last.kind = "Sector"
              /\ EndsAt(DEpiAt + 3)
        /\ (LastField.defect = "ThirdEpilogueByte"
               /\ LastField.trk = track_num) =>
              /\ last.kind = "Sector"
              /\ last.sector_num = LastField.sec
              /\ Get(sectors, LastField.sec) # None
              /\ Get(sectors, LastField.sec)[1].data
                    = Payload(track_num, LastField.sec)

\* A Sector has been returned for a field whose two epilogues have a third
\* byte other than the marker's.
C17_Witness ==
    /\ PastAddress
    /\ LastField.defect = "ThirdEpilogueByte"
    /\ OnlyField(LastField.sec)
    /\ last.kind = "Sector"
    /\ TwoBytesAt(AEpiAt, DEFAULT_ADDRESS_EPILOGUE)
    /\ Nib(CurrentTrack.strm, AEpiAt + 2) # DEFAULT_ADDRESS_EPILOGUE[3]
    /\ TwoBytesAt(DEpiAt, DEFAULT_DATA_EPILOGUE)
    /\ Nib(CurrentTrack.strm, DEpiAt + 2) # DEFAULT_DATA_EPILOGUE[3]
    /\ EndsAt(DEpiAt + 3)


(***************************************************************************)
(* C19                                                                     *)
(***************************************************************************)
\* The values decode_44 can give for a sector number.
SectorValues == 0..255

\* C19: Track.sectors() ends after at most 257 next_sector calls: every call
\* either ends the scan or adds one new key, one of the 256 values 0..255
\* of decode_44, to the map; so while the scan goes on the calls made are
\* as many as the keys, and one more once it has ended.
C19_ScanTerminates ==
    /\ DOMAIN sectors \subseteq SectorValues
    /\ (pc = "scan") => (calls = Cardinality(DOMAIN sectors))
    /\ (pc \in {"report", "crashed"}) =>
          (calls = Cardinality(DOMAIN sectors) + 1)
    /\ calls <= Cardinality(SectorValues) + 1

\* A scan has ended after more than 16 calls, with a key above 15.
C19_Witness ==
    /\ pc = "report"
    /\ calls > NumSectors + 1
    /\ Cardinality(DOMAIN sectors) = NumSectors + 1
    /\ \E n \in DOMAIN sectors : n >= NumSectors


(***************************************************************************)
(* C20                                                                     *)
(***************************************************************************)
\* C20 as stated: the program exits with a non-zero status if and only if
\* one of the slots of the image was written as a zero-filled placeholder.
C20_StatusIffPlaceholder ==
    (status # -1) => ((status # 0) <=> (placeholders > 0))

=============================================================================
